---- MODULE Spec2Model ----
(***************************************************************************)
(* Model of Evaluation/HumanEval/eval_instruct_vllm.py: the prompt builder *)
(* build_deepseekcoder_instruction, the two orchestration flows            *)
(* generate_main and evaluation_only, and the script entry point.          *)
(*                                                                         *)
(* Text is a sequence of one-character strings.  A Python dict is a        *)
(* sequence of <<key, value>> pairs in insertion order.  A path is the     *)
(* sequence of its components.  A file is a sequence of lines.             *)
(***************************************************************************)
EXTENDS Integers, Sequences, FiniteSets, TLC

VARIABLES
    pc,                 \* position in the script
    args,               \* parsed command line (argparse namespace)
    fs,                 \* file system: existing path -> sequence of lines
    dirs,               \* directories that exist
    examples,           \* generate_main: examples (list of dicts)
    messages_list,      \* generate_main: messages_list
    outputs,            \* generate_main: outputs returned by llm.generate
    generated_examples, \* generate_main: generated_examples
    output_examples,    \* evaluation_only: output_examples
    processed_examples, \* evaluation_only: processed_examples
    i,                  \* index of the running for loop
    fw,                 \* path of the file open for writing, <<>> when none
    generate_calls,     \* arguments of every llm.generate call so far
    extract_calls,      \* arguments of every extract_generation_code call
    evaluate_calls,     \* arguments of every evaluator call so far
    result,             \* value returned by the evaluator
    printed,            \* evaluation summaries printed so far
    failed,             \* the step that raised, "" while none has
    trace,              \* steps executed so far, in order
    fs0,                \* the file system when the run started
    dirs0,              \* the directories when the run started
    languge,            \* build_deepseekcoder_instruction: argument
    question,           \* build_deepseekcoder_instruction: argument
    instruction,        \* build_deepseekcoder_instruction: returned text, <<>> before the call
    optimize,           \* the interpreter runs with -O: assert statements are dropped
    wrecords,           \* writer: the records to write
    wruns               \* writer: number of times the write step has run

vars == <<pc, args, fs, dirs, examples, messages_list, outputs,
          generated_examples, output_examples, processed_examples, i, fw,
          generate_calls, extract_calls, evaluate_calls, result, printed,
          failed, trace, fs0, dirs0, languge, question, instruction, optimize,
          wrecords, wruns>>

flowVars == <<pc, args, fs, dirs, examples, messages_list, outputs,
              generated_examples, output_examples, processed_examples, i, fw,
              generate_calls, extract_calls, evaluate_calls, result, printed,
              failed, trace, fs0, dirs0, optimize>>

promptVars == <<languge, question, instruction>>

writerVars == <<wrecords, wruns>>

-----------------------------------------------------------------------------
(* Bounds of the model *)

\* longest problem stub given to the prompt builder on its own
MaxStub == 3
\* most lines in a problem file or a previously generated output file
MaxLines == 2
\* most records handed to the writer on its own, and most prior lines
MaxRecords == 2

-----------------------------------------------------------------------------
(* Text *)

RECURSIVE SeqsUpTo(_, _)
SeqsUpTo(S, n) ==
    IF n = 0 THEN {<<>>}
    ELSE LET shorter == SeqsUpTo(S, n - 1)
         IN  shorter \cup {Append(s, x) : s \in {t \in shorter : Len(t) = n - 1}, x \in S}

\* A character outside printable ASCII is written by its code point,
\* "U+000B"; the grave accent U+0060, which a TLA+ string cannot hold, is
\* written "GRAVE".
Grave == "GRAVE"

\* the characters str.isspace holds for
Whitespace ==
    {
     "\t", "\n", "U+000B", "\f", "\r", "U+001C", "U+001D", "U+001E",
     "U+001F", " ", "U+0085", "U+00A0", "U+1680", "U+2000", "U+2001", "U+2002",
     "U+2003", "U+2004", "U+2005", "U+2006", "U+2007", "U+2008", "U+2009", "U+200A",
     "U+2028", "U+2029", "U+202F", "U+205F", "U+3000"
    }

\* str.isspace for one character
IsSpace(c) == c \in Whitespace

\* the characters the case operations are modelled on: printable ASCII, the
\* whitespace characters, Latin-1, basic Greek and Cyrillic, and U+0130,
\* U+0131, U+01C4..U+01C6, U+0307
Alphabet ==
    {
     "\t", "\n", "U+000B", "\f", "\r", "U+001C", "U+001D", "U+001E", "U+001F", " ",
     "!", "\"", "#", "$", "%", "&", "'", "(", ")", "*",
     "+", ",", "-", ".", "/", "0", "1", "2", "3", "4",
     "5", "6", "7", "8", "9", ":", ";", "<", "=", ">",
     "?", "@", "A", "B", "C", "D", "E", "F", "G", "H",
     "I", "J", "K", "L", "M", "N", "O", "P", "Q", "R",
     "S", "T", "U", "V", "W", "X", "Y", "Z", "[", "\\",
     "]", "^", "_", "a", "b", "c", "d", "e", "f", "g",
     "h", "i", "j", "k", "l", "m", "n", "o", "p", "q",
     "r", "s", "t", "u", "v", "w", "x", "y", "z", "{",
     "|", "}", "~", "U+0085", "U+00A0", "U+00A1", "U+00A2", "U+00A3", "U+00A4", "U+00A5",
     "U+00A6", "U+00A7", "U+00A8", "U+00A9", "U+00AA", "U+00AB", "U+00AC", "U+00AD", "U+00AE", "U+00AF",
     "U+00B0", "U+00B1", "U+00B2", "U+00B3", "U+00B4", "U+00B5", "U+00B6", "U+00B7", "U+00B8", "U+00B9",
     "U+00BA", "U+00BB", "U+00BC", "U+00BD", "U+00BE", "U+00BF", "U+00C0", "U+00C1", "U+00C2", "U+00C3",
     "U+00C4", "U+00C5", "U+00C6", "U+00C7", "U+00C8", "U+00C9", "U+00CA", "U+00CB", "U+00CC", "U+00CD",
     "U+00CE", "U+00CF", "U+00D0", "U+00D1", "U+00D2", "U+00D3", "U+00D4", "U+00D5", "U+00D6", "U+00D7",
     "U+00D8", "U+00D9", "U+00DA", "U+00DB", "U+00DC", "U+00DD", "U+00DE", "U+00DF", "U+00E0", "U+00E1",
     "U+00E2", "U+00E3", "U+00E4", "U+00E5", "U+00E6", "U+00E7", "U+00E8", "U+00E9", "U+00EA", "U+00EB",
     "U+00EC", "U+00ED", "U+00EE", "U+00EF", "U+00F0", "U+00F1", "U+00F2", "U+00F3", "U+00F4", "U+00F5",
     "U+00F6", "U+00F7", "U+00F8", "U+00F9", "U+00FA", "U+00FB", "U+00FC", "U+00FD", "U+00FE", "U+00FF",
     "U+0130", "U+0131", "U+01C4", "U+01C5", "U+01C6", "U+0307", "U+0391", "U+0392", "U+0393", "U+0394",
     "U+0395", "U+0396", "U+0397", "U+0398", "U+0399", "U+039A", "U+039B", "U+039C", "U+039D", "U+039E",
     "U+039F", "U+03A0", "U+03A1", "U+03A3", "U+03A4", "U+03A5", "U+03A6", "U+03A7", "U+03A8", "U+03A9",
     "U+03AA", "U+03AB", "U+03AC", "U+03AD", "U+03AE", "U+03AF", "U+03B0", "U+03B1", "U+03B2", "U+03B3",
     "U+03B4", "U+03B5", "U+03B6", "U+03B7", "U+03B8", "U+03B9", "U+03BA", "U+03BB", "U+03BC", "U+03BD",
     "U+03BE", "U+03BF", "U+03C0", "U+03C1", "U+03C2", "U+03C3", "U+03C4", "U+03C5", "U+03C6", "U+03C7",
     "U+03C8", "U+03C9", "U+0410", "U+0411", "U+0412", "U+0413", "U+0414", "U+0415", "U+0416", "U+0417",
     "U+0418", "U+0419", "U+041A", "U+041B", "U+041C", "U+041D", "U+041E", "U+041F", "U+0420", "U+0421",
     "U+0422", "U+0423", "U+0424", "U+0425", "U+0426", "U+0427", "U+0428", "U+0429", "U+042A", "U+042B",
     "U+042C", "U+042D", "U+042E", "U+042F", "U+0430", "U+0431", "U+0432", "U+0433", "U+0434", "U+0435",
     "U+0436", "U+0437", "U+0438", "U+0439", "U+043A", "U+043B", "U+043C", "U+043D", "U+043E", "U+043F",
     "U+0440", "U+0441", "U+0442", "U+0443", "U+0444", "U+0445", "U+0446", "U+0447", "U+0448", "U+0449",
     "U+044A", "U+044B", "U+044C", "U+044D", "U+044E", "U+044F", "U+1680", "U+2000", "U+2001", "U+2002",
     "U+2003", "U+2004", "U+2005", "U+2006", "U+2007", "U+2008", "U+2009", "U+200A", "U+2028", "U+2029",
     "U+202F", "U+205F", "U+3000", Grave
    }

\* the characters of Alphabet that are cased, and those a case rule skips
Cased ==
    {
     "A", "B", "C", "D", "E", "F", "G", "H", "I", "J",
     "K", "L", "M", "N", "O", "P", "Q", "R", "S", "T",
     "U", "V", "W", "X", "Y", "Z", "a", "b", "c", "d",
     "e", "f", "g", "h", "i", "j", "k", "l", "m", "n",
     "o", "p", "q", "r", "s", "t", "u", "v", "w", "x",
     "y", "z", "U+00AA", "U+00B5", "U+00BA", "U+00C0", "U+00C1", "U+00C2", "U+00C3", "U+00C4",
     "U+00C5", "U+00C6", "U+00C7", "U+00C8", "U+00C9", "U+00CA", "U+00CB", "U+00CC", "U+00CD", "U+00CE",
     "U+00CF", "U+00D0", "U+00D1", "U+00D2", "U+00D3", "U+00D4", "U+00D5", "U+00D6", "U+00D8", "U+00D9",
     "U+00DA", "U+00DB", "U+00DC", "U+00DD", "U+00DE", "U+00DF", "U+00E0", "U+00E1", "U+00E2", "U+00E3",
     "U+00E4", "U+00E5", "U+00E6", "U+00E7", "U+00E8", "U+00E9", "U+00EA", "U+00EB", "U+00EC", "U+00ED",
     "U+00EE", "U+00EF", "U+00F0", "U+00F1", "U+00F2", "U+00F3", "U+00F4", "U+00F5", "U+00F6", "U+00F8",
     "U+00F9", "U+00FA", "U+00FB", "U+00FC", "U+00FD", "U+00FE", "U+00FF", "U+0130", "U+0131", "U+01C4",
     "U+01C5", "U+01C6", "U+0391", "U+0392", "U+0393", "U+0394", "U+0395", "U+0396", "U+0397", "U+0398",
     "U+0399", "U+039A", "U+039B", "U+039C", "U+039D", "U+039E", "U+039F", "U+03A0", "U+03A1", "U+03A3",
     "U+03A4", "U+03A5", "U+03A6", "U+03A7", "U+03A8", "U+03A9", "U+03AA", "U+03AB", "U+03AC", "U+03AD",
     "U+03AE", "U+03AF", "U+03B0", "U+03B1", "U+03B2", "U+03B3", "U+03B4", "U+03B5", "U+03B6", "U+03B7",
     "U+03B8", "U+03B9", "U+03BA", "U+03BB", "U+03BC", "U+03BD", "U+03BE", "U+03BF", "U+03C0", "U+03C1",
     "U+03C2", "U+03C3", "U+03C4", "U+03C5", "U+03C6", "U+03C7", "U+03C8", "U+03C9", "U+0410", "U+0411",
     "U+0412", "U+0413", "U+0414", "U+0415", "U+0416", "U+0417", "U+0418", "U+0419", "U+041A", "U+041B",
     "U+041C", "U+041D", "U+041E", "U+041F", "U+0420", "U+0421", "U+0422", "U+0423", "U+0424", "U+0425",
     "U+0426", "U+0427", "U+0428", "U+0429", "U+042A", "U+042B", "U+042C", "U+042D", "U+042E", "U+042F",
     "U+0430", "U+0431", "U+0432", "U+0433", "U+0434", "U+0435", "U+0436", "U+0437", "U+0438", "U+0439",
     "U+043A", "U+043B", "U+043C", "U+043D", "U+043E", "U+043F", "U+0440", "U+0441", "U+0442", "U+0443",
     "U+0444", "U+0445", "U+0446", "U+0447", "U+0448", "U+0449", "U+044A", "U+044B", "U+044C", "U+044D",
     "U+044E", "U+044F"
    }

CaseIgnorable ==
    {
     "'", ".", ":", "^", Grave, "U+00A8", "U+00AD", "U+00AF", "U+00B4", "U+00B7",
     "U+00B8", "U+0307"
    }

\* the characters of Alphabet that str.lower changes, each with what it
\* becomes away from any context
LowerPairs ==
    <<
     <<"A", <<"a">>>>, <<"B", <<"b">>>>, <<"C", <<"c">>>>,
     <<"D", <<"d">>>>, <<"E", <<"e">>>>, <<"F", <<"f">>>>,
     <<"G", <<"g">>>>, <<"H", <<"h">>>>, <<"I", <<"i">>>>,
     <<"J", <<"j">>>>, <<"K", <<"k">>>>, <<"L", <<"l">>>>,
     <<"M", <<"m">>>>, <<"N", <<"n">>>>, <<"O", <<"o">>>>,
     <<"P", <<"p">>>>, <<"Q", <<"q">>>>, <<"R", <<"r">>>>,
     <<"S", <<"s">>>>, <<"T", <<"t">>>>, <<"U", <<"u">>>>,
     <<"V", <<"v">>>>, <<"W", <<"w">>>>, <<"X", <<"x">>>>,
     <<"Y", <<"y">>>>, <<"Z", <<"z">>>>, <<"U+00C0", <<"U+00E0">>>>,
     <<"U+00C1", <<"U+00E1">>>>, <<"U+00C2", <<"U+00E2">>>>, <<"U+00C3", <<"U+00E3">>>>,
     <<"U+00C4", <<"U+00E4">>>>, <<"U+00C5", <<"U+00E5">>>>, <<"U+00C6", <<"U+00E6">>>>,
     <<"U+00C7", <<"U+00E7">>>>, <<"U+00C8", <<"U+00E8">>>>, <<"U+00C9", <<"U+00E9">>>>,
     <<"U+00CA", <<"U+00EA">>>>, <<"U+00CB", <<"U+00EB">>>>, <<"U+00CC", <<"U+00EC">>>>,
     <<"U+00CD", <<"U+00ED">>>>, <<"U+00CE", <<"U+00EE">>>>, <<"U+00CF", <<"U+00EF">>>>,
     <<"U+00D0", <<"U+00F0">>>>, <<"U+00D1", <<"U+00F1">>>>, <<"U+00D2", <<"U+00F2">>>>,
     <<"U+00D3", <<"U+00F3">>>>, <<"U+00D4", <<"U+00F4">>>>, <<"U+00D5", <<"U+00F5">>>>,
     <<"U+00D6", <<"U+00F6">>>>, <<"U+00D8", <<"U+00F8">>>>, <<"U+00D9", <<"U+00F9">>>>,
     <<"U+00DA", <<"U+00FA">>>>, <<"U+00DB", <<"U+00FB">>>>, <<"U+00DC", <<"U+00FC">>>>,
     <<"U+00DD", <<"U+00FD">>>>, <<"U+00DE", <<"U+00FE">>>>, <<"U+0130", <<"i", "U+0307">>>>,
     <<"U+01C4", <<"U+01C6">>>>, <<"U+01C5", <<"U+01C6">>>>, <<"U+0391", <<"U+03B1">>>>,
     <<"U+0392", <<"U+03B2">>>>, <<"U+0393", <<"U+03B3">>>>, <<"U+0394", <<"U+03B4">>>>,
     <<"U+0395", <<"U+03B5">>>>, <<"U+0396", <<"U+03B6">>>>, <<"U+0397", <<"U+03B7">>>>,
     <<"U+0398", <<"U+03B8">>>>, <<"U+0399", <<"U+03B9">>>>, <<"U+039A", <<"U+03BA">>>>,
     <<"U+039B", <<"U+03BB">>>>, <<"U+039C", <<"U+03BC">>>>, <<"U+039D", <<"U+03BD">>>>,
     <<"U+039E", <<"U+03BE">>>>, <<"U+039F", <<"U+03BF">>>>, <<"U+03A0", <<"U+03C0">>>>,
     <<"U+03A1", <<"U+03C1">>>>, <<"U+03A3", <<"U+03C3">>>>, <<"U+03A4", <<"U+03C4">>>>,
     <<"U+03A5", <<"U+03C5">>>>, <<"U+03A6", <<"U+03C6">>>>, <<"U+03A7", <<"U+03C7">>>>,
     <<"U+03A8", <<"U+03C8">>>>, <<"U+03A9", <<"U+03C9">>>>, <<"U+03AA", <<"U+03CA">>>>,
     <<"U+03AB", <<"U+03CB">>>>, <<"U+0410", <<"U+0430">>>>, <<"U+0411", <<"U+0431">>>>,
     <<"U+0412", <<"U+0432">>>>, <<"U+0413", <<"U+0433">>>>, <<"U+0414", <<"U+0434">>>>,
     <<"U+0415", <<"U+0435">>>>, <<"U+0416", <<"U+0436">>>>, <<"U+0417", <<"U+0437">>>>,
     <<"U+0418", <<"U+0438">>>>, <<"U+0419", <<"U+0439">>>>, <<"U+041A", <<"U+043A">>>>,
     <<"U+041B", <<"U+043B">>>>, <<"U+041C", <<"U+043C">>>>, <<"U+041D", <<"U+043D">>>>,
     <<"U+041E", <<"U+043E">>>>, <<"U+041F", <<"U+043F">>>>, <<"U+0420", <<"U+0440">>>>,
     <<"U+0421", <<"U+0441">>>>, <<"U+0422", <<"U+0442">>>>, <<"U+0423", <<"U+0443">>>>,
     <<"U+0424", <<"U+0444">>>>, <<"U+0425", <<"U+0445">>>>, <<"U+0426", <<"U+0446">>>>,
     <<"U+0427", <<"U+0447">>>>, <<"U+0428", <<"U+0448">>>>, <<"U+0429", <<"U+0449">>>>,
     <<"U+042A", <<"U+044A">>>>, <<"U+042B", <<"U+044B">>>>, <<"U+042C", <<"U+044C">>>>,
     <<"U+042D", <<"U+044D">>>>, <<"U+042E", <<"U+044E">>>>, <<"U+042F", <<"U+044F">>>>
    >>

\* c.lower() for one character of Alphabet
LowerChar(c) ==
    IF \E k \in 1..Len(LowerPairs) : LowerPairs[k][1] = c
    THEN LowerPairs[CHOOSE k \in 1..Len(LowerPairs) : LowerPairs[k][1] = c][2]
    ELSE <<CHOOSE x \in Alphabet : x = c>>

\* the capital sigma at s[k] ends a word: the nearest character before it
\* that is not skipped is cased, and the nearest one after it is not
FinalSigma(s, k) ==
    LET before == {j \in 1..(k - 1) : s[j] \notin CaseIgnorable}
        after == {j \in (k + 1)..Len(s) : s[j] \notin CaseIgnorable}
    IN  /\ before # {}
        /\ s[CHOOSE j \in before : \A m \in before : m <= j] \in Cased
        /\ \/ after = {}
           \/ s[CHOOSE j \in after : \A m \in after : m >= j] \notin Cased

\* what s[k] becomes in s.lower()
LowerAt(s, k) ==
    IF s[k] = "U+03A3"
    THEN IF FinalSigma(s, k) THEN <<"U+03C2">> ELSE <<"U+03C3">>
    ELSE LowerChar(s[k])

RECURSIVE LowerFrom(_, _)
LowerFrom(s, k) ==
    IF k > Len(s) THEN <<>> ELSE LowerAt(s, k) \o LowerFrom(s, k + 1)

\* str.lower
Lower(s) == LowerFrom(s, 1)

\* str.strip: drop leading and trailing whitespace
Strip(s) ==
    LET keep == {k \in 1..Len(s) : ~IsSpace(s[k])}
    IN  IF keep = {} THEN <<>>
        ELSE LET lo == CHOOSE k \in keep : \A m \in keep : k <= m
                 hi == CHOOSE k \in keep : \A m \in keep : k >= m
             IN  SubSeq(s, lo, hi)

\* t occurs in s at position k
OccursAt(t, s, k) ==
    /\ k >= 1
    /\ k + Len(t) - 1 <= Len(s)
    /\ \A m \in 1..Len(t) : s[k + m - 1] = t[m]

\* "t in s" for strings
Contains(s, t) == \E k \in 1..(Len(s) + 1) : OccursAt(t, s, k)

Fence == <<Grave, Grave, Grave>>

\* where the run of grave accents holding position k starts
RunStart(s, k) ==
    CHOOSE j \in 1..k :
        /\ \A m \in j..k : s[m] = Grave
        /\ j = 1 \/ s[j - 1] # Grave

\* text.count(fence): the fence markers found scanning left to right without
\* overlap; one ends at every third grave accent of a run
FenceCount(s) ==
    Cardinality({k \in 1..Len(s) :
                    /\ s[k] = Grave
                    /\ (k - RunStart(s, k) + 1) % 3 = 0})

-----------------------------------------------------------------------------
(* build_deepseekcoder_instruction *)

\* the template up to its first placeholder's fence, after the outer strip()
TemplateHead ==
    <<
       "P", "l", "e", "a", "s", "e", " ", "c", "o", "n", "t", "i", "n", "u", "e", " ",
       "t", "o", " ", "c", "o", "m", "p", "l", "e", "t", "e", " ", "t", "h", "e", " ",
       "f", "u", "n", "c", "t", "i", "o", "n", ".", " ", "Y", "o", "u", " ", "a", "r",
       "e", " ", "n", "o", "t", " ", "a", "l", "l", "o", "w", "e", "d", " ", "t", "o",
       " ", "m", "o", "d", "i", "f", "y", " ", "t", "h", "e", " ", "g", "i", "v", "e",
       "n", " ", "c", "o", "d", "e", " ", "a", "n", "d", " ", "d", "o", " ", "t", "h",
       "e", " ", "c", "o", "m", "p", "l", "e", "t", "i", "o", "n", " ", "o", "n", "l",
       "y", ".", " ", "P", "l", "e", "a", "s", "e", " ", "r", "e", "t", "u", "r", "n",
       " ", "a", "l", "l", " ", "c", "o", "m", "p", "l", "e", "t", "e", "d", " ", "f",
       "u", "n", "c", "t", "i", "o", "n", " ", "i", "n", " ", "a", " ", "c", "o", "d",
       "e", "b", "l", "o", "c", "k", ".", " ", "H", "e", "r", "e", " ", "i", "s", " ",
       "t", "h", "e", " ", "g", "i", "v", "e", "n", " ", "c", "o", "d", "e", " ", "t",
       "o", " ", "d", "o", " ", "c", "o", "m", "p", "l", "e", "t", "i", "o", "n", ":",
       "\n"
    >>

\* what the call builds from the language name and the stub given to it
FormatTemplate(lang_tag, stub) ==
    TemplateHead \o Fence \o lang_tag \o <<"\n">> \o stub \o <<"\n">> \o Fence

\* mutant: the fence carries the language name as given, not lowercased
BuildUntagged(l, q) == FormatTemplate(l, Strip(q))

build_deepseekcoder_instruction(l, q) == FormatTemplate(Lower(l), Strip(q))

-----------------------------------------------------------------------------
(* Dicts, JSON lines, paths and files *)

HasKey(d, k) == \E n \in 1..Len(d) : d[n][1] = k

\* d[k]
GetItem(d, k) == d[CHOOSE n \in 1..Len(d) : d[n][1] = k][2]

\* d[k] = v: an existing key keeps its place, a new key goes last
SetItem(d, k, v) ==
    IF HasKey(d, k)
    THEN [n \in 1..Len(d) |-> IF d[n][1] = k THEN <<k, v>> ELSE d[n]]
    ELSE Append(d, <<k, v>>)

\* a line of a file: a JSON object, a line of whitespace, or text that is
\* not JSON
JsonLine(obj) == <<"json", obj>>
BlankLine == <<"blank", <<>>>>
BadLine == <<"bad", <<>>>>

\* json.dumps(ex) + "\n"
JsonDumps(ex) == JsonLine(ex)

\* x.strip() is truthy
NonBlank(line) == line[1] # "blank"

\* json.loads(x) raises
LoadsRaises(line) == line[1] = "bad"

\* json.loads(x)
JsonLoads(line) == line[2]

RECURSIVE SelectLines(_)
SelectLines(lines) ==
    IF lines = <<>> THEN <<>>
    ELSE IF NonBlank(Head(lines)) THEN <<Head(lines)>> \o SelectLines(Tail(lines))
    ELSE SelectLines(Tail(lines))

\* [json.loads(x) for x in open(path) if x.strip()], when no line raises
LoadJsonl(lines) ==
    LET kept == SelectLines(lines)
    IN  [n \in 1..Len(kept) |-> JsonLoads(kept[n])]

\* some line that is not blank is not JSON
LoadJsonlRaises(lines) ==
    \E n \in 1..Len(lines) : NonBlank(lines[n]) /\ LoadsRaises(lines[n])

\* os.path.basename, os.path.join and the directory part of a path
Basename(p) == IF p = <<>> THEN <<>> ELSE <<p[Len(p)]>>
Join(a, b) == a \o b
Dirname(p) == IF p = <<>> THEN <<>> ELSE SubSeq(p, 1, Len(p) - 1)

\* os.makedirs(d, exist_ok=True): d and every directory above it
Makedirs(ds, d) == ds \cup {SubSeq(d, 1, n) : n \in 1..Len(d)}

\* os.makedirs(d, exist_ok=True) raises: d is the empty path, or d or a
\* level above it is a file
MakedirsRaises(f, d) ==
    d = <<>> \/ \E n \in 1..Len(d) : SubSeq(d, 1, n) \in DOMAIN f

\* a regular file is at p: open(p) for reading succeeds
IsFile(f, p) == p \in DOMAIN f

\* os.path.exists(p): a file or a directory is at p
Exists(f, ds, p) == p \in DOMAIN f \/ p \in ds

\* open(p, "w") succeeds: p is not the empty path (FileNotFoundError), the
\* directory of p exists (the working directory always does) and p is not
\* itself a directory
CanCreate(ds, p) ==
    /\ p # <<>>
    /\ Dirname(p) = <<>> \/ Dirname(p) \in ds
    /\ p \notin ds

\* the file system with the file at p holding the given lines
WithFile(f, p, lines) ==
    [q \in (DOMAIN f) \cup {p} |-> IF q = p THEN lines ELSE f[q]]

\* mutant: open(path, "a") keeps what the file held
OpenAppend(f, p) == IF IsFile(f, p) THEN f ELSE WithFile(f, p, <<>>)

\* open(path, "w"): the file is created or truncated
OpenTruncate(f, p) == WithFile(f, p, <<>>)

\* fw.write(json.dumps(ex) + "\n")
WriteLine(f, p, ex) == WithFile(f, p, Append(f[p], JsonDumps(ex)))

RECURSIVE WriteAll(_, _, _)
WriteAll(f, p, recs) ==
    IF recs = <<>> THEN f
    ELSE WriteAll(WriteLine(f, p, Head(recs)), p, Tail(recs))

\* the whole write step: with open(path, "w") as fw: for ex in recs: fw.write
WriteStep(f, p, recs) == WriteAll(OpenTruncate(f, p), p, recs)

\* data_abs_dir and the problem file of a language
data_abs_dir == <<"data">>

ProblemFileName(lang) ==
    CASE lang = "python" -> "humaneval-python.jsonl"
      [] lang = "php" -> "humaneval-php.jsonl"

problem_file(lang) == Join(data_abs_dir, <<ProblemFileName(lang)>>)

-----------------------------------------------------------------------------
(* Collaborators outside this file *)

\* languge_settings[lang]["full_name"]
FullName(lang) ==
    CASE lang = "python" -> <<"P", "y", "t", "h", "o", "n">>
      [] lang = "php" -> <<"P", "H", "P">>

\* tokenizer.apply_chat_template(message, tokenize=False,
\* add_generation_prompt=True) for a single user message
ApplyChatTemplate(content) == <<"<user>">> \o content \o <<"<assistant>">>

\* the first position of a fence marker in s, 0 when there is none
FirstFence(s) ==
    IF \E k \in 1..Len(s) : OccursAt(Fence, s, k)
    THEN CHOOSE k \in 1..Len(s) :
            /\ OccursAt(Fence, s, k)
            /\ \A m \in 1..(k - 1) : ~OccursAt(Fence, s, m)
    ELSE 0

\* the code inside the first fenced block of a completion; the raw text when
\* the completion holds no closed fenced block
ExtractCode(text) ==
    LET a == FirstFence(text)
        rest == IF a = 0 THEN <<>> ELSE SubSeq(text, a + 3, Len(text))
        b == FirstFence(rest)
    IN  IF a = 0 \/ b = 0 THEN text ELSE SubSeq(rest, 1, b - 1)

\* extract_generation_code(example, lang): the record with its code field set
extract_generation_code(example, lang) ==
    SetItem(example, "code",
            ExtractCode(IF HasKey(example, "output")
                        THEN GetItem(example, "output") ELSE <<>>))

-----------------------------------------------------------------------------
(* Inputs of a run *)

\* the benchmark problems a problem file may hold
Problem(task, stub) == <<<<"task_id", task>>, <<"prompt", stub>>>>

Problems ==
    {Problem(<<"T", "0">>, <<"d", "e", "f", " ", "f", "(", ")", ":", "\n">>),
     Problem(<<"T", "1">>, <<" ", "g">>)}

\* completions the model may return
ModelTexts ==
    {<<"x">>, Fence \o <<"p", "y", "\n", "y", "\n">> \o Fence}

\* records a previously generated output file may hold: one with the raw
\* completion only, one that already went through extraction
Generated ==
    {SetItem(Problem(<<"T", "0">>, <<"f">>), "output", <<"x">>),
     SetItem(SetItem(Problem(<<"T", "1">>, <<"g">>), "output", <<"y">>),
             "code", <<"y">>)}

ProblemFileContents ==
    SeqsUpTo({JsonLine(p) : p \in Problems} \cup {BlankLine, BadLine}, MaxLines)

OutputFileContents ==
    SeqsUpTo({JsonLine(g) : g \in Generated} \cup {BlankLine, BadLine}, MaxLines)

\* what an output file left by an earlier run holds
StaleOutput == <<JsonLine(Problem(<<"o", "l", "d">>, <<"o", "l", "d">>))>>

\* the problem file as shipped, for runs that do not load it
BenchmarkFile == <<JsonLine(Problem(<<"T", "0">>, <<"f">>))>>

OutputPaths == {<<"outputs", "r.json">>, <<"tmp", "r.json">>, <<"outputs">>}
TempDirs == {<<"tmp">>, <<"scratch">>}
LanguageCodes == {"python"}

Args == [output_path : OutputPaths, temp_dir : TempDirs, language : LanguageCodes]

\* values the evaluator may return
Results == {"pass@1=0", "pass@1=1"}

\* a file system holding the problem file (when given) and the output file
\* (when given)
FileSystem(a, problem, output) ==
    LET withProblem == IF problem = <<>> THEN <<>>
                       ELSE WithFile(<<>>, problem_file(a.language), problem[1])
    IN  IF output = <<>> THEN withProblem
        ELSE WithFile(withProblem, a.output_path, output[1])

\* the directories of the files that exist, plus any of the others
InitialDirs(f) ==
    {({Dirname(p) : p \in DOMAIN f} \ {<<>>}) \cup extra :
        extra \in SUBSET ({<<"outputs">>, <<"tmp">>} \ DOMAIN f)}

Idle ==
    /\ languge = <<>> /\ question = <<>> /\ instruction = <<>>
    /\ wrecords = <<>> /\ wruns = 0

FlowStart(startPc, a, f, ds, o) ==
    /\ pc = startPc
    /\ optimize = o
    /\ args = a
    /\ fs = f /\ fs0 = f
    /\ dirs = ds /\ dirs0 = ds
    /\ examples = <<>> /\ messages_list = <<>> /\ outputs = <<>>
    /\ generated_examples = <<>>
    /\ output_examples = <<>> /\ processed_examples = <<>>
    /\ i = 0 /\ fw = <<>>
    /\ generate_calls = <<>> /\ extract_calls = <<>> /\ evaluate_calls = <<>>
    /\ result = "" /\ printed = <<>> /\ failed = "" /\ trace = <<>>

\* the script is run: the __main__ block is entered (generate_main holds no
\* assert statement, so -O changes nothing there and is left off)
InitScript ==
    \E a \in Args :
    \E problem \in {<<>>} \cup {<<c>> : c \in ProblemFileContents} :
    \E output \in {<<>>, <<StaleOutput>>} :
        LET f == FileSystem(a, problem, output)
        IN  \E ds \in InitialDirs(f) : FlowStart("main", a, f, ds, FALSE)

\* the module is imported and evaluation_only(args) is called by the importer
InitEvaluationOnly ==
    \E a \in Args :
    \E output \in {<<>>} \cup {<<c>> : c \in OutputFileContents} :
        LET f == FileSystem(a, <<BenchmarkFile>>, output)
        IN  \E ds \in InitialDirs(f), o \in BOOLEAN :
                FlowStart("eo_assert", a, f, ds, o)

Init == Idle /\ (InitScript \/ InitEvaluationOnly)

-----------------------------------------------------------------------------
(* Control flow *)

GmSteps == {"gm_makedirs", "gm_tokenizer", "gm_llm", "gm_load", "gm_build",
            "gm_generate", "gm_extract", "gm_open", "gm_write", "gm_close",
            "gm_evaluate", "gm_print"}

EoSteps == {"eo_assert", "eo_makedirs", "eo_load", "eo_extract", "eo_open",
            "eo_write", "eo_close", "eo_evaluate", "eo_print"}

\* the statement that follows a statement when it completes
NextPc(p) ==
    CASE p = "main" -> "gm_makedirs"
      [] p = "gm_makedirs" -> "gm_tokenizer"
      [] p = "gm_tokenizer" -> "gm_llm"
      [] p = "gm_llm" -> "gm_load"
      [] p = "gm_load" -> "gm_build"
      [] p = "gm_build" -> "gm_generate"
      [] p = "gm_generate" -> "gm_extract"
      [] p = "gm_extract" -> "gm_open"
      [] p = "gm_open" -> "gm_write"
      [] p = "gm_write" -> "gm_close"
      [] p = "gm_close" -> "gm_evaluate"
      [] p = "gm_evaluate" -> "gm_print"
      [] p = "gm_print" -> "gm_done"
      [] p = "eo_assert" -> "eo_makedirs"
      [] p = "eo_makedirs" -> "eo_load"
      [] p = "eo_load" -> "eo_extract"
      [] p = "eo_extract" -> "eo_open"
      [] p = "eo_open" -> "eo_write"
      [] p = "eo_write" -> "eo_close"
      [] p = "eo_close" -> "eo_evaluate"
      [] p = "eo_evaluate" -> "eo_print"
      [] p = "eo_print" -> "eo_done"
      [] OTHER -> p

\* the for loops, and the statement that follows each
Loops == {"gm_build", "gm_extract", "gm_write", "eo_extract", "eo_write"}

\* mutant: the loop stops one item short
EnterLoopOffByOne(loop, n, k) == IF k < n THEN loop ELSE NextPc(loop)

\* where control goes when a for loop over n items is reached with index k
EnterLoop(loop, n, k) == IF k <= n THEN loop ELSE NextPc(loop)

\* an uncaught exception: the step is recorded and the process ends
Raise(step) ==
    /\ pc' = "aborted"
    /\ failed' = step

Record(step, k) == trace' = Append(trace, <<step, k>>)

\* the keyword arguments of an evaluate_functional_correctness call
EvaluatorCall(input, a) ==
    [input_file |-> input, tmp_dir |-> a.temp_dir, n_workers |-> 8,
     timeout |-> 3, problem_file |-> problem_file(a.language),
     language |-> a.language]

\* the step completes and control goes to target
Goto(target) ==
    /\ pc' = target
    /\ failed' = failed

\* a call that either returns or raises
ReturnOrRaise(ok, step) == IF ok THEN Goto(NextPc(step)) ELSE Raise(step)

fixedVars == <<args, fs0, dirs0, languge, question, instruction, optimize,
               wrecords, wruns>>

-----------------------------------------------------------------------------
(* The script entry point *)

\* parse the arguments, set the environment flag and the seed, then call
\* generate_main(args)
Main ==
    /\ pc = "main"
    /\ Record("main", 0)
    /\ Goto(NextPc("main"))
    /\ UNCHANGED <<fs, dirs, examples, messages_list, outputs,
                   generated_examples, output_examples, processed_examples, i,
                   fw, generate_calls, extract_calls, evaluate_calls, result,
                   printed>>
    /\ UNCHANGED fixedVars

-----------------------------------------------------------------------------
(* generate_main *)

GmMakedirs ==
    /\ pc = "gm_makedirs"
    /\ Record("gm_makedirs", 0)
    /\ IF MakedirsRaises(fs, args.temp_dir)
       THEN /\ Raise("gm_makedirs")
            /\ UNCHANGED dirs
       ELSE /\ dirs' = Makedirs(dirs, args.temp_dir)
            /\ Goto(NextPc("gm_makedirs"))
    /\ UNCHANGED <<fs, examples, messages_list, outputs, generated_examples,
                   output_examples, processed_examples, i, fw, generate_calls,
                   extract_calls, evaluate_calls, result, printed>>
    /\ UNCHANGED fixedVars

\* AutoTokenizer.from_pretrained(model_name_or_path)
GmTokenizer ==
    /\ pc = "gm_tokenizer"
    /\ Record("gm_tokenizer", 0)
    /\ \E ok \in BOOLEAN : ReturnOrRaise(ok, "gm_tokenizer")
    /\ UNCHANGED <<fs, dirs, examples, messages_list, outputs,
                   generated_examples, output_examples, processed_examples, i,
                   fw, generate_calls, extract_calls, evaluate_calls, result,
                   printed>>
    /\ UNCHANGED fixedVars

\* LLM(model=...) and SamplingParams(...)
GmLLM ==
    /\ pc = "gm_llm"
    /\ Record("gm_llm", 0)
    /\ \E ok \in BOOLEAN : ReturnOrRaise(ok, "gm_llm")
    /\ UNCHANGED <<fs, dirs, examples, messages_list, outputs,
                   generated_examples, output_examples, processed_examples, i,
                   fw, generate_calls, extract_calls, evaluate_calls, result,
                   printed>>
    /\ UNCHANGED fixedVars

\* examples = [json.loads(x) for x in open(problem_file) if x.strip()]
GmLoad ==
    /\ pc = "gm_load"
    /\ Record("gm_load", 0)
    /\ LET path == problem_file(args.language)
       IN  IF ~IsFile(fs, path) \/ LoadJsonlRaises(fs[path])
           THEN /\ Raise("gm_load")
                /\ UNCHANGED <<examples, messages_list, i>>
           ELSE /\ examples' = LoadJsonl(fs[path])
                /\ messages_list' = <<>>
                /\ i' = 1
                /\ Goto(EnterLoop("gm_build", Len(examples'), 1))
    /\ UNCHANGED <<fs, dirs, outputs, generated_examples, output_examples,
                   processed_examples, fw, generate_calls, extract_calls,
                   evaluate_calls, result, printed>>
    /\ UNCHANGED fixedVars

\* the rendered prompt of one example
RenderPrompt(example, lang) ==
    ApplyChatTemplate(
        build_deepseekcoder_instruction(FullName(lang), GetItem(example, "prompt")))

\* mutant: the engine is called for each prompt as it is built
GmBuildGenerating ==
    /\ pc = "gm_build"
    /\ Record("gm_build", i)
    /\ messages_list' = Append(messages_list, RenderPrompt(examples[i], args.language))
    /\ generate_calls' =
            Append(generate_calls, <<RenderPrompt(examples[i], args.language)>>)
    /\ i' = i + 1
    /\ Goto(EnterLoop("gm_build", Len(examples), i + 1))
    /\ UNCHANGED <<fs, dirs, examples, outputs, generated_examples,
                   output_examples, processed_examples, fw, extract_calls,
                   evaluate_calls, result, printed>>
    /\ UNCHANGED fixedVars

\* one pass of: for example in examples: messages_list.append(...)
GmBuild ==
    /\ pc = "gm_build"
    /\ Record("gm_build", i)
    /\ messages_list' = Append(messages_list, RenderPrompt(examples[i], args.language))
    /\ i' = i + 1
    /\ Goto(EnterLoop("gm_build", Len(examples), i + 1))
    /\ UNCHANGED <<fs, dirs, examples, outputs, generated_examples,
                   output_examples, processed_examples, fw, generate_calls,
                   extract_calls, evaluate_calls, result, printed>>
    /\ UNCHANGED fixedVars

\* what llm.generate may return for a batch: one request output per prompt,
\* in prompt order, each holding one candidate
EngineOutputs(prompts) ==
    {[k \in 1..Len(prompts) |-> [outputs |-> <<[text |-> texts[k]]>>]] :
        texts \in [1..Len(prompts) -> ModelTexts]}

\* mutant: a failed batch is submitted once more before giving up
GmGenerateRetrying ==
    /\ pc = "gm_generate"
    /\ Record("gm_generate", 0)
    /\ generate_calls' = Append(generate_calls, messages_list)
    /\ \E ok \in BOOLEAN :
        IF ok
        THEN /\ \E outs \in EngineOutputs(messages_list) : outputs' = outs
             /\ generated_examples' = <<>>
             /\ i' = 1
             /\ Goto(EnterLoop("gm_extract", Len(messages_list), 1))
        ELSE /\ IF generate_calls = <<>> THEN Goto("gm_generate")
                ELSE Raise("gm_generate")
             /\ UNCHANGED <<outputs, generated_examples, i>>
    /\ UNCHANGED <<fs, dirs, examples, messages_list, output_examples,
                   processed_examples, fw, extract_calls, evaluate_calls,
                   result, printed>>
    /\ UNCHANGED fixedVars

\* outputs = llm.generate(messages_list, sampling_params=sampling_params)
GmGenerate ==
    /\ pc = "gm_generate"
    /\ Record("gm_generate", 0)
    /\ generate_calls' = Append(generate_calls, messages_list)
    /\ \E ok \in BOOLEAN :
        IF ok
        THEN /\ \E outs \in EngineOutputs(messages_list) : outputs' = outs
             /\ generated_examples' = <<>>
             /\ i' = 1
             /\ Goto(EnterLoop("gm_extract", Len(messages_list), 1))
        ELSE /\ Raise("gm_generate")
             /\ UNCHANGED <<outputs, generated_examples, i>>
    /\ UNCHANGED <<fs, dirs, examples, messages_list, output_examples,
                   processed_examples, fw, extract_calls, evaluate_calls,
                   result, printed>>
    /\ UNCHANGED fixedVars

\* mutant: the completion is taken from the mirrored position of the batch
WithOutputMirrored(exs, outs, k) ==
    SetItem(exs[k], "output", outs[Len(outs) + 1 - k].outputs[1].text)

\* example = examples[i]; example["output"] = output.outputs[0].text
WithOutput(exs, outs, k) == SetItem(exs[k], "output", outs[k].outputs[1].text)

\* one pass of: for i, output in enumerate(outputs): ...
GmExtract ==
    /\ pc = "gm_extract"
    /\ Record("gm_extract", i)
    /\ LET example == WithOutput(examples, outputs, i)
       IN  /\ examples' = [examples EXCEPT ![i] = example]
           /\ extract_calls' = Append(extract_calls, example)
           /\ generated_examples' =
                Append(generated_examples,
                       extract_generation_code(example, args.language))
    /\ i' = i + 1
    /\ Goto(EnterLoop("gm_extract", Len(outputs), i + 1))
    /\ UNCHANGED <<fs, dirs, messages_list, outputs, output_examples,
                   processed_examples, fw, generate_calls, evaluate_calls,
                   result, printed>>
    /\ UNCHANGED fixedVars

\* mutant: the evaluator is started as soon as the output file is open
GmOpenEvaluating ==
    /\ pc = "gm_open"
    /\ Record("gm_open", 0)
    /\ evaluate_calls' = Append(evaluate_calls, EvaluatorCall(args.output_path, args))
    /\ IF CanCreate(dirs, args.output_path)
       THEN /\ fs' = OpenTruncate(fs, args.output_path)
            /\ fw' = args.output_path
            /\ i' = 1
            /\ Goto(EnterLoop("gm_write", Len(generated_examples), 1))
       ELSE /\ Raise("gm_open")
            /\ UNCHANGED <<fs, fw, i>>
    /\ UNCHANGED <<dirs, examples, messages_list, outputs, generated_examples,
                   output_examples, processed_examples, generate_calls,
                   extract_calls, result, printed>>
    /\ UNCHANGED fixedVars

\* with open(saved_path, "w", encoding="utf-8") as fw
GmOpen ==
    /\ pc = "gm_open"
    /\ Record("gm_open", 0)
    /\ IF CanCreate(dirs, args.output_path)
       THEN /\ fs' = OpenTruncate(fs, args.output_path)
            /\ fw' = args.output_path
            /\ i' = 1
            /\ Goto(EnterLoop("gm_write", Len(generated_examples), 1))
       ELSE /\ Raise("gm_open")
            /\ UNCHANGED <<fs, fw, i>>
    /\ UNCHANGED <<dirs, examples, messages_list, outputs, generated_examples,
                   output_examples, processed_examples, generate_calls,
                   extract_calls, evaluate_calls, result, printed>>
    /\ UNCHANGED fixedVars

\* one pass of: for ex in generated_examples: fw.write(json.dumps(ex) + "\n")
GmWrite ==
    /\ pc = "gm_write"
    /\ Record("gm_write", i)
    /\ fs' = WriteLine(fs, fw, generated_examples[i])
    /\ i' = i + 1
    /\ Goto(EnterLoop("gm_write", Len(generated_examples), i + 1))
    /\ UNCHANGED <<dirs, examples, messages_list, outputs, generated_examples,
                   output_examples, processed_examples, fw, generate_calls,
                   extract_calls, evaluate_calls, result, printed>>
    /\ UNCHANGED fixedVars

\* the print inside the with block, then the block's exit closes the file
GmClose ==
    /\ pc = "gm_close"
    /\ Record("gm_close", 0)
    /\ fw' = <<>>
    /\ Goto(NextPc("gm_close"))
    /\ UNCHANGED <<fs, dirs, examples, messages_list, outputs,
                   generated_examples, output_examples, processed_examples, i,
                   generate_calls, extract_calls, evaluate_calls, result,
                   printed>>
    /\ UNCHANGED fixedVars

\* result = evaluate_functional_correctness(input_file=saved_path, ...)
GmEvaluate ==
    /\ pc = "gm_evaluate"
    /\ Record("gm_evaluate", 0)
    /\ evaluate_calls' = Append(evaluate_calls, EvaluatorCall(args.output_path, args))
    /\ \E ok \in BOOLEAN :
        IF ok
        THEN /\ \E r \in Results : result' = r
             /\ Goto(NextPc("gm_evaluate"))
        ELSE /\ Raise("gm_evaluate")
             /\ UNCHANGED result
    /\ UNCHANGED <<fs, dirs, examples, messages_list, outputs,
                   generated_examples, output_examples, processed_examples, i,
                   fw, generate_calls, extract_calls, printed>>
    /\ UNCHANGED fixedVars

\* print(lang, result, model_name_or_path)
GmPrint ==
    /\ pc = "gm_print"
    /\ Record("gm_print", 0)
    /\ printed' = Append(printed, <<args.language, result>>)
    /\ Goto(NextPc("gm_print"))
    /\ UNCHANGED <<fs, dirs, examples, messages_list, outputs,
                   generated_examples, output_examples, processed_examples, i,
                   fw, generate_calls, extract_calls, evaluate_calls, result>>
    /\ UNCHANGED fixedVars

-----------------------------------------------------------------------------
(* evaluation_only *)

\* assert os.path.exists(args.output_path), "Not fond output file: ..."
\* (under -O the statement is not there)
EoAssert ==
    /\ pc = "eo_assert"
    /\ Record("eo_assert", 0)
    /\ IF optimize \/ Exists(fs, dirs, args.output_path)
       THEN Goto(NextPc("eo_assert"))
       ELSE Raise("eo_assert")
    /\ UNCHANGED <<fs, dirs, examples, messages_list, outputs,
                   generated_examples, output_examples, processed_examples, i,
                   fw, generate_calls, extract_calls, evaluate_calls, result,
                   printed>>
    /\ UNCHANGED fixedVars

EoMakedirs ==
    /\ pc = "eo_makedirs"
    /\ Record("eo_makedirs", 0)
    /\ IF MakedirsRaises(fs, args.temp_dir)
       THEN /\ Raise("eo_makedirs")
            /\ UNCHANGED dirs
       ELSE /\ dirs' = Makedirs(dirs, args.temp_dir)
            /\ Goto(NextPc("eo_makedirs"))
    /\ UNCHANGED <<fs, examples, messages_list, outputs, generated_examples,
                   output_examples, processed_examples, i, fw, generate_calls,
                   extract_calls, evaluate_calls, result, printed>>
    /\ UNCHANGED fixedVars

\* output_examples = [json.loads(x) for x in open(args.output_path) if x.strip()]
EoLoad ==
    /\ pc = "eo_load"
    /\ Record("eo_load", 0)
    /\ LET path == args.output_path
       IN  IF ~IsFile(fs, path) \/ LoadJsonlRaises(fs[path])
           THEN /\ Raise("eo_load")
                /\ UNCHANGED <<output_examples, processed_examples, i>>
           ELSE /\ output_examples' = LoadJsonl(fs[path])
                /\ processed_examples' = <<>>
                /\ i' = 1
                /\ Goto(EnterLoop("eo_extract", Len(output_examples'), 1))
    /\ UNCHANGED <<fs, dirs, examples, messages_list, outputs,
                   generated_examples, fw, generate_calls, extract_calls,
                   evaluate_calls, result, printed>>
    /\ UNCHANGED fixedVars

\* one item of: [extract_generation_code(ex, lang) for ex in output_examples]
EoExtract ==
    /\ pc = "eo_extract"
    /\ Record("eo_extract", i)
    /\ extract_calls' = Append(extract_calls, output_examples[i])
    /\ processed_examples' =
            Append(processed_examples,
                   extract_generation_code(output_examples[i], args.language))
    /\ i' = i + 1
    /\ Goto(EnterLoop("eo_extract", Len(output_examples), i + 1))
    /\ UNCHANGED <<fs, dirs, examples, messages_list, outputs,
                   generated_examples, output_examples, fw, generate_calls,
                   evaluate_calls, result, printed>>
    /\ UNCHANGED fixedVars

\* processed_path = os.path.join(temp_dir, os.path.basename(args.output_path))
processed_path(a) == Join(a.temp_dir, Basename(a.output_path))

\* with open(processed_path, "w", encoding="utf-8") as fw
EoOpen ==
    /\ pc = "eo_open"
    /\ Record("eo_open", 0)
    /\ IF CanCreate(dirs, processed_path(args))
       THEN /\ fs' = OpenTruncate(fs, processed_path(args))
            /\ fw' = processed_path(args)
            /\ i' = 1
            /\ Goto(EnterLoop("eo_write", Len(processed_examples), 1))
       ELSE /\ Raise("eo_open")
            /\ UNCHANGED <<fs, fw, i>>
    /\ UNCHANGED <<dirs, examples, messages_list, outputs, generated_examples,
                   output_examples, processed_examples, generate_calls,
                   extract_calls, evaluate_calls, result, printed>>
    /\ UNCHANGED fixedVars

\* one pass of: for ex in processed_examples: fw.write(json.dumps(ex) + "\n")
EoWrite ==
    /\ pc = "eo_write"
    /\ Record("eo_write", i)
    /\ fs' = WriteLine(fs, fw, processed_examples[i])
    /\ i' = i + 1
    /\ Goto(EnterLoop("eo_write", Len(processed_examples), i + 1))
    /\ UNCHANGED <<dirs, examples, messages_list, outputs, generated_examples,
                   output_examples, processed_examples, fw, generate_calls,
                   extract_calls, evaluate_calls, result, printed>>
    /\ UNCHANGED fixedVars

\* the print inside the with block, then the block's exit closes the file
EoClose ==
    /\ pc = "eo_close"
    /\ Record("eo_close", 0)
    /\ fw' = <<>>
    /\ Goto(NextPc("eo_close"))
    /\ UNCHANGED <<fs, dirs, examples, messages_list, outputs,
                   generated_examples, output_examples, processed_examples, i,
                   generate_calls, extract_calls, evaluate_calls, result,
                   printed>>
    /\ UNCHANGED fixedVars

\* result = evaluate_functional_correctness(input_file=processed_path, ...)
EoEvaluate ==
    /\ pc = "eo_evaluate"
    /\ Record("eo_evaluate", 0)
    /\ evaluate_calls' =
            Append(evaluate_calls, EvaluatorCall(processed_path(args), args))
    /\ \E ok \in BOOLEAN :
        IF ok
        THEN /\ \E r \in Results : result' = r
             /\ Goto(NextPc("eo_evaluate"))
        ELSE /\ Raise("eo_evaluate")
             /\ UNCHANGED result
    /\ UNCHANGED <<fs, dirs, examples, messages_list, outputs,
                   generated_examples, output_examples, processed_examples, i,
                   fw, generate_calls, extract_calls, printed>>
    /\ UNCHANGED fixedVars

\* print(lang, result)
EoPrint ==
    /\ pc = "eo_print"
    /\ Record("eo_print", 0)
    /\ printed' = Append(printed, <<args.language, result>>)
    /\ Goto(NextPc("eo_print"))
    /\ UNCHANGED <<fs, dirs, examples, messages_list, outputs,
                   generated_examples, output_examples, processed_examples, i,
                   fw, generate_calls, extract_calls, evaluate_calls, result>>
    /\ UNCHANGED fixedVars

-----------------------------------------------------------------------------
(* The orchestration *)

Next ==
    \/ Main
    \/ GmMakedirs \/ GmTokenizer \/ GmLLM \/ GmLoad \/ GmBuild \/ GmGenerate
    \/ GmExtract \/ GmOpen \/ GmWrite \/ GmClose \/ GmEvaluate \/ GmPrint
    \/ EoAssert \/ EoMakedirs \/ EoLoad \/ EoExtract \/ EoOpen \/ EoWrite
    \/ EoClose \/ EoEvaluate \/ EoPrint

Spec == Init /\ [][Next]_vars

-----------------------------------------------------------------------------
(* The prompt builder on its own *)

LanguageNames ==
    {<<"P", "y", "t", "h", "o", "n">>, <<"P", "H", "P">>, <<"c", "p", "p">>,
     <<"U+0130", "U+03A3">>}

StubChars == {"a", " ", "\n", "U+000B", Grave}

FlowIdle ==
    FlowStart("idle", CHOOSE a \in Args : TRUE, <<>>, {}, FALSE)

InitPrompt ==
    /\ FlowIdle
    /\ languge \in LanguageNames
    /\ question \in SeqsUpTo(StubChars, MaxStub)
    /\ instruction = <<>>
    /\ wrecords = <<>> /\ wruns = 0

CallBuild ==
    /\ instruction = <<>>
    /\ languge # <<>>
    /\ instruction' = build_deepseekcoder_instruction(languge, question)
    /\ UNCHANGED <<languge, question>>
    /\ UNCHANGED flowVars
    /\ UNCHANGED writerVars

NextPrompt == CallBuild

SpecPrompt == InitPrompt /\ [][NextPrompt]_vars

-----------------------------------------------------------------------------
(* The result writer on its own *)

WriterLines == {JsonLine(g) : g \in Generated} \cup {BlankLine, BadLine}

\* the file system before the write step: the destination absent, or
\* holding lines of an earlier run
InitWriter ==
    /\ \E a \in Args :
       \E prior \in {<<>>} \cup {<<c>> : c \in SeqsUpTo(WriterLines, MaxRecords)} :
            LET f == FileSystem(a, <<>>, prior)
            IN  \E ds \in InitialDirs(f) : FlowStart("writer", a, f, ds, FALSE)
    /\ languge = <<>> /\ question = <<>> /\ instruction = <<>>
    /\ wrecords \in SeqsUpTo(Generated, MaxRecords)
    /\ wruns = 0

\* the write step of lines 81-83 run once more with the same records
RunWriter ==
    /\ pc = "writer"
    /\ wruns < 2
    /\ Record("writer", wruns)
    /\ IF CanCreate(dirs, args.output_path)
       THEN /\ fs' = WriteStep(fs, args.output_path, wrecords)
            /\ wruns' = wruns + 1
            /\ Goto("writer")
       ELSE /\ Raise("writer")
            /\ UNCHANGED <<fs, wruns>>
    /\ UNCHANGED <<args, dirs, examples, messages_list, outputs,
                   generated_examples, output_examples, processed_examples, i,
                   fw, generate_calls, extract_calls, evaluate_calls, result,
                   printed, fs0, dirs0, optimize, wrecords>>
    /\ UNCHANGED promptVars

NextWriter == RunWriter

SpecWriter == InitWriter /\ [][NextWriter]_vars

-----------------------------------------------------------------------------
(* Vocabulary of the properties *)

\* the step has been executed
Done(step) == \E k \in 1..Len(trace) : trace[k][1] = step

\* the run is a run of generate_main, of evaluation_only
InGm == pc \in GmSteps \/ Done("gm_makedirs")
InEo == pc \in EoSteps \/ Done("eo_assert")

\* the problems held by the problem file when the run started, blank lines
\* left out
LoadedProblems ==
    LET kept == SelectLines(fs0[problem_file(args.language)])
    IN  [k \in 1..Len(kept) |-> kept[k][2]]

\* the objects held by the lines of a file
ObjectsOf(lines) == [k \in 1..Len(lines) |-> lines[k][2]]

AllJson(lines) == \A k \in 1..Len(lines) : lines[k][1] = "json"

NoStepTwice ==
    \A a, b \in 1..Len(trace) : a # b => trace[a] # trace[b]

GmOrder == <<"main", "gm_makedirs", "gm_tokenizer", "gm_llm", "gm_load",
             "gm_build", "gm_generate", "gm_extract", "gm_open", "gm_write",
             "gm_close", "gm_evaluate", "gm_print">>

Rank(step) ==
    IF \E k \in 1..Len(GmOrder) : GmOrder[k] = step
    THEN CHOOSE k \in 1..Len(GmOrder) : GmOrder[k] = step
    ELSE 0

\* the steps executed follow the order of GmOrder, loop passes by index
InGmOrder ==
    \A a, b \in 1..Len(trace) :
        a < b =>
            \/ Rank(trace[a][1]) < Rank(trace[b][1])
            \/ /\ trace[a][1] = trace[b][1]
               /\ trace[a][1] \in Loops
               /\ trace[a][2] < trace[b][2]

\* the first fence marker of the text is followed by the lowercase name and
\* a newline
OpeningTagged(text, name) ==
    /\ FirstFence(text) > 0
    /\ OccursAt(Lower(name) \o <<"\n">>, text, FirstFence(text) + 3)

\* the file the run writes its records to
Destination == IF InEo THEN processed_path(args) ELSE args.output_path

\* the steps up to and including the opening of the destination file
BeforeWrite ==
    {"gm_makedirs", "gm_tokenizer", "gm_llm", "gm_load", "gm_build",
     "gm_generate", "gm_extract", "gm_open",
     "eo_assert", "eo_makedirs", "eo_load", "eo_extract", "eo_open"}

\* the positions control can ever reach from the positions in S
Successors(p) ==
    IF p \in {"gm_done", "eo_done", "aborted", "idle", "writer"} THEN {}
    ELSE {NextPc(p), "aborted"}
            \cup (IF p \in Loops THEN {p} ELSE {})
            \cup (IF NextPc(p) \in Loops THEN {NextPc(NextPc(p))} ELSE {})

RECURSIVE ReachableFrom(_)
ReachableFrom(S) ==
    LET more == S \cup UNION {Successors(p) : p \in S}
    IN  IF more = S THEN S ELSE ReachableFrom(more)

-----------------------------------------------------------------------------
(* Properties *)

\* C1: once generate_main has written its output file, the file holds as
\* many records as problems were loaded, and the k-th record carries the
\* task_id of the k-th loaded problem.
C1_CountAndOrder ==
    (InGm /\ Done("gm_close")) =>
        LET written == fs[args.output_path]
        IN  /\ Len(written) = Len(LoadedProblems)
            /\ AllJson(written)
            /\ \A k \in 1..Len(written) :
                    GetItem(written[k][2], "task_id")
                        = GetItem(LoadedProblems[k], "task_id")

C1_Witness ==
    /\ pc = "gm_done"
    /\ Len(fs[args.output_path]) = 2
    /\ GetItem(fs[args.output_path][1][2], "task_id")
            # GetItem(fs[args.output_path][2][2], "task_id")
    /\ Len(fs0[problem_file(args.language)]) = 2

\* C2 as stated: the returned text contains the stub verbatim and holds
\* exactly one fenced block (two fence markers), the first marker followed by
\* the lowercase language name and a newline.
C2_Original ==
    instruction # <<>> =>
        /\ Contains(instruction, question)
        /\ FenceCount(instruction) = 2
        /\ OpeningTagged(instruction, languge)

\* C2 as amended: the returned text contains the stub with its leading and
\* trailing whitespace stripped, the first fence marker is followed by the
\* lowercase language name and a newline, and the text holds exactly one
\* fenced block whenever the stripped stub holds no fence marker.
C2_Amended ==
    instruction # <<>> =>
        /\ Contains(instruction, Strip(question))
        /\ OpeningTagged(instruction, languge)
        /\ FenceCount(Strip(question)) = 0 => FenceCount(instruction) = 2

C2_Witness ==
    /\ instruction # <<>>
    /\ Strip(question) # question
    /\ Strip(question) # <<>>
    /\ ~Contains(instruction, question)
    /\ Lower(languge) # languge

\* C3 as stated: an evaluation_only run whose output file does not exist ends at the
\* assertion: no directory is made, no file is written, the extractor and
\* the evaluator are never called.
C3_MissingOutputIsFatal ==
    (InEo /\ ~IsFile(fs0, args.output_path)) =>
        /\ pc \in {"eo_assert", "aborted"}
        /\ pc = "aborted" => failed = "eo_assert"
        /\ trace \in {<<>>, <<<<"eo_assert", 0>>>>}
        /\ dirs = dirs0
        /\ fs = fs0
        /\ fw = <<>>
        /\ extract_calls = <<>>
        /\ evaluate_calls = <<>>
        /\ printed = <<>>

\* C4 as stated: from the script entry point the terminal state of each flow
\* can be reached, and a finished run has executed exactly one flow.
C4_BothFlowsFromEntry ==
    /\ pc = "main" => {"gm_done", "eo_done"} \subseteq ReachableFrom({"main"})
    /\ pc \in {"gm_done", "eo_done"} => (InGm /\ ~InEo) \/ (InEo /\ ~InGm)

\* C5: generate_main runs its steps in order; the evaluator is called once,
\* after every record was extracted and written and the file was closed, on
\* that file; a run that has not failed can always take its next step, and
\* at its end the evaluation summary has been printed.
C5_GenerateThenEvaluate ==
    InGm =>
        /\ InGmOrder
        /\ evaluate_calls # <<>> =>
            /\ Len(evaluate_calls) = 1
            /\ fw = <<>>
            /\ Done("gm_close")
            /\ evaluate_calls[1].input_file = args.output_path
            /\ Len(extract_calls) = Len(LoadedProblems)
            /\ Len(generated_examples) = Len(LoadedProblems)
            /\ AllJson(fs[args.output_path])
            /\ ObjectsOf(fs[args.output_path]) = generated_examples
        /\ pc \in GmSteps => ENABLED Next
        /\ pc = "gm_done" =>
            /\ failed = ""
            /\ printed = <<<<args.language, result>>>>
            /\ Done("gm_evaluate")

C5_Witness ==
    /\ pc = "gm_done"
    /\ Len(fs[args.output_path]) = 2
    /\ printed # <<>>

\* C6: llm.generate is called at most once, never by evaluation_only, only
\* after every prompt was built, with one rendered prompt per loaded problem
\* in problem order; once its results are used it has been called once.
C6_OneBatchCall ==
    /\ Len(generate_calls) <= 1
    /\ InEo => generate_calls = <<>>
    /\ generate_calls # <<>> =>
        /\ Len(generate_calls[1]) = Len(LoadedProblems)
        /\ \A k \in 1..Len(LoadedProblems) :
                generate_calls[1][k] =
                    ApplyChatTemplate(
                        build_deepseekcoder_instruction(
                            FullName(args.language),
                            GetItem(LoadedProblems[k], "prompt")))
    /\ (Done("gm_extract") \/ Done("gm_open")) => Len(generate_calls) = 1

C6_Witness ==
    /\ Len(generate_calls) = 1
    /\ Len(generate_calls[1]) = 2
    /\ generate_calls[1][1] # generate_calls[1][2]
    /\ pc = "gm_done"

\* C7: a step that raises ends the run at once: it is the last step
\* executed, the evaluator is not called unless it is the step that raised,
\* a failure before the destination file is opened leaves that file as it
\* was and unopened, and no step is executed twice.
C7_FailureAborts ==
    /\ NoStepTwice
    /\ pc = "aborted" <=> failed # ""
    /\ failed # "" =>
        /\ trace[Len(trace)][1] = failed
        /\ failed \notin {"gm_evaluate", "eo_evaluate"} => evaluate_calls = <<>>
        /\ printed = <<>>
        /\ fw = <<>>
        /\ failed \in BeforeWrite =>
            /\ IsFile(fs, Destination) <=> IsFile(fs0, Destination)
            /\ IsFile(fs, Destination) => fs[Destination] = fs0[Destination]
            /\ ~Done("gm_write") /\ ~Done("eo_write")

C7_Witness ==
    /\ pc = "aborted"
    /\ failed = "gm_generate"
    /\ IsFile(fs0, args.output_path)
    /\ Len(messages_list) = 2

\* C8: after the write step has run once or twice with the same records, the
\* destination holds one JSON line per record, in record order, and nothing
\* of what it held before; a write step that cannot open the destination
\* leaves the file system as it was.
C8_WriterIdempotent ==
    /\ wruns >= 1 =>
        /\ IsFile(fs, args.output_path)
        /\ Len(fs[args.output_path]) = Len(wrecords)
        /\ AllJson(fs[args.output_path])
        /\ ObjectsOf(fs[args.output_path]) = wrecords
    /\ (pc = "aborted" /\ failed = "writer") => fs = fs0 /\ wruns = 0

C8_Witness ==
    /\ wruns = 2
    /\ Len(wrecords) = 2
    /\ IsFile(fs0, args.output_path)
    /\ fs0[args.output_path] # <<>>
    /\ fs # fs0

\* C9: the k-th record written by generate_main has as output the text of
\* the first candidate of the k-th engine result, and the task_id and prompt
\* of the k-th loaded problem.
C9_IndexAligned ==
    (InGm /\ Done("gm_open") /\ failed # "gm_open") =>
        LET written == fs[args.output_path]
        IN  \A k \in 1..Len(written) :
                /\ written[k][1] = "json"
                /\ GetItem(written[k][2], "output") = outputs[k].outputs[1].text
                /\ GetItem(written[k][2], "task_id")
                        = GetItem(LoadedProblems[k], "task_id")
                /\ GetItem(written[k][2], "prompt")
                        = GetItem(LoadedProblems[k], "prompt")

C9_Witness ==
    /\ pc = "gm_done"
    /\ Len(fs[args.output_path]) = 2
    /\ outputs[1].outputs[1].text # outputs[2].outputs[1].text

\* C10 as stated: evaluation_only writes to a file other than the one at
\* output_path, the file at output_path stays as it was, and the evaluator
\* is given the processed copy, not the original.
C10_OriginalUntouched ==
    InEo =>
        /\ IsFile(fs0, args.output_path) =>
            /\ IsFile(fs, args.output_path)
            /\ fs[args.output_path] = fs0[args.output_path]
        /\ \A k \in 1..Len(evaluate_calls) :
            /\ evaluate_calls[k].input_file = processed_path(args)
            /\ evaluate_calls[k].input_file # args.output_path

====
